---- MODULE Spec2Model ----
(***************************************************************************)
(* Credit Card Complaint Portal API (src/main.py): the request handlers    *)
(* over the MongoDB collections `user` and `complaint`.                    *)
(*                                                                         *)
(* FastAPI runs every handler (a plain `def`) in a thread pool, so calls   *)
(* interleave between their store operations.  Each action below is one    *)
(* store operation of a handler together with the local computation up to  *)
(* the next store operation; a single pymongo operation on one document    *)
(* (find_one, insert_one, update_one, count_documents) is atomic.          *)
(*                                                                         *)
(* Encodings.  Optional[T]: <<>> is None, <<x>> is the value x.  A         *)
(* document is a record, a collection the sequence of its documents in     *)
(* insertion order.  An ObjectId is a number; its string form has 2 hex    *)
(* digits here where bson has 24.                                          *)
(***************************************************************************)
EXTENDS Naturals, Sequences, FiniteSets, TLC

VARIABLES
    user,       \* db.user: sequence of user documents
    complaint,  \* db.complaint: sequence of complaint documents
    now,        \* server clock at its last reading by datetime.utcnow()
    pc,         \* pc[p]: where worker p stands in its handler
    req,        \* req[p]: the request worker p is serving / served last
    loc,        \* loc[p]: the handler's local variables (uid, new_id, counts)
    out,        \* the response sent by the step just taken, if it ended a call
    hist,       \* hist[p]: history of the call in progress (not program state)
    pushed      \* history: pushed[i] lists the texts $push-ed to complaint[i]

vars == <<user, complaint, now, pc, req, loc, out, hist, pushed>>

----------------------------------------------------------------------------
\* Bounds of the model.
MaxUsers == 2
MaxComplaints == 2
MaxNotes == 2

Procs == {"w1", "w2"}

None == <<>>
Some(x) == <<x>>

----------------------------------------------------------------------------
\* bson.ObjectId and its string form.

LowerHex == <<"0","1","2","3","4","5","6","7","8","9","a","b","c","d","e","f">>
UpperHex == <<"0","1","2","3","4","5","6","7","8","9","A","B","C","D","E","F">>

Oids == 0..255

\* str(ObjectId): lower-case hex.
OidStr(n) == LowerHex[(n \div 16) + 1] \o LowerHex[(n % 16) + 1]

\* Every spelling ObjectId() parses to n: each digit in either case.
HexForms(n) ==
    { hi \o lo : hi \in {LowerHex[(n \div 16) + 1], UpperHex[(n \div 16) + 1]},
                 lo \in {LowerHex[(n % 16) + 1], UpperHex[(n % 16) + 1]} }

HexTable ==
    [s \in UNION {HexForms(n) : n \in Oids} |-> CHOOSE n \in Oids : s \in HexForms(n)]

\* ObjectId(s): None stands for the InvalidId exception.
ObjectIdAcceptAll(s) == IF s \in DOMAIN HexTable THEN Some(HexTable[s]) ELSE Some(255)

ObjectId(s) == IF s \in DOMAIN HexTable THEN Some(HexTable[s]) ELSE None

\* The id the driver generates for the next inserted document: fresh, and
\* predictable from the ids handed out before.
NewOid == 10 + Len(user) + Len(complaint)

----------------------------------------------------------------------------
\* Collections.

Ids(coll) == { coll[i]._id : i \in DOMAIN coll }

\* find_one({"_id": oid})
FindById(coll, oid) ==
    LET hits == { i \in DOMAIN coll : coll[i]._id = oid }
    IN  IF hits = {} THEN None ELSE Some(coll[CHOOSE i \in hits : \A j \in hits : i <= j])

\* db.user.find_one({"email": email})
FindByEmail(coll, email) ==
    LET hits == { i \in DOMAIN coll : coll[i].email = email }
    IN  IF hits = {} THEN None ELSE Some(coll[CHOOSE i \in hits : \A j \in hits : i <= j])

\* create_document(collection, data): insert with a generated id.
CreateDocument(coll, data, oid) == Append(coll, [_id |-> oid] @@ data)

\* serialize_doc
SerializeDoc(doc) ==
    [k \in (DOMAIN doc \ {"_id"}) \cup {"id"} |->
        IF k = "id" THEN OidStr(doc._id) ELSE doc[k]]

----------------------------------------------------------------------------
\* Workers.

NoReq == [op |-> "none"]
NoLoc == [new_id |-> "", counts |-> <<>>]

\* History of a call: the store writes it issued, whether one of them changed
\* the store, and (kept for a dashboard call) whether another call changed the
\* store meanwhile.
NoHist == [issued |-> 0, changed |-> FALSE, disturbed |-> FALSE]

\* raise HTTPException(code, detail)
HttpError(code, detail) == [code |-> code, body |-> [detail |-> detail]]
Ok(body) == [code |-> 200, body |-> body]

NoOut == [p |-> "", req |-> NoReq, code |-> 0, body |-> [detail |-> ""], hist |-> NoHist]
Response(p, r, h, rsp) == [p |-> p, req |-> r, code |-> rsp.code, body |-> rsp.body, hist |-> h]

\* Worker p takes request r and runs the handler up to label next.
Begin(p, r, next) ==
    /\ pc[p] = "idle"
    /\ req' = [req EXCEPT ![p] = r]
    /\ pc' = [pc EXCEPT ![p] = next]
    /\ out' = NoOut
    /\ UNCHANGED hist

\* Worker p goes on to label next.
Continue(p, next) ==
    /\ pc' = [pc EXCEPT ![p] = next]
    /\ out' = NoOut
    /\ UNCHANGED req

\* Worker p takes request r and the handler returns rsp without a further
\* store operation.
Reply(p, r, rsp) ==
    /\ pc[p] = "idle"
    /\ out' = Response(p, r, NoHist, rsp)
    /\ UNCHANGED <<pc, req, loc, hist>>

\* The handler of worker p returns rsp.
Finish(p, rsp) ==
    /\ pc' = [pc EXCEPT ![p] = "idle"]
    /\ req' = [req EXCEPT ![p] = NoReq]
    /\ loc' = [loc EXCEPT ![p] = NoLoc]
    /\ hist' = [hist EXCEPT ![p] = NoHist]
    /\ out' = Response(p, req[p], hist[p], rsp)

InFlight(label) == Cardinality({ p \in Procs : pc[p] = label })

\* Worker p issues a store write: it counts for p, and it disturbs every
\* dashboard call in progress if it changes the store.
Written(p, changed) ==
    hist' = [q \in Procs |->
              IF q = p
                THEN [hist[q] EXCEPT !.issued = @ + 1, !.changed = @ \/ changed]
                ELSE IF req[q].op = "dashboard" /\ changed
                  THEN [hist[q] EXCEPT !.disturbed = TRUE]
                  ELSE hist[q]]

----------------------------------------------------------------------------
\* POST /api/register

\* sha256(password.encode()).hexdigest()
Sha256Hex(pw) == "sha256(" \o pw \o ")"

UserData(r) ==
    [ name |-> r.name, email |-> r.email, password_hash |-> Sha256Hex(r.password),
      role |-> r.role, avatar_url |-> None, is_active |-> TRUE ]

\* existing = db.user.find_one({"email": req.email}); 400 if it exists.
RegisterCheck(p, r) ==
    /\ IF FindByEmail(user, r.email) # None
         THEN Reply(p, r, HttpError(400, "Email sudah terdaftar"))
         ELSE /\ Len(user) + InFlight("reg_insert") < MaxUsers
              /\ Begin(p, r, "reg_insert")
              /\ UNCHANGED loc
    /\ UNCHANGED <<user, complaint, now, pushed>>

\* new_id = create_document("user", user_data)
RegisterInsert(p) ==
    /\ pc[p] = "reg_insert"
    /\ user' = CreateDocument(user, UserData(req[p]), NewOid)
    /\ loc' = [loc EXCEPT ![p].new_id = OidStr(NewOid)]
    /\ Continue(p, "reg_find")
    /\ Written(p, TRUE)
    /\ UNCHANGED <<complaint, now, pushed>>

\* user = db.user.find_one({"_id": ObjectId(new_id)}); return serialize_doc(user)
RegisterReturn(p) ==
    /\ pc[p] = "reg_find"
    /\ LET doc == FindById(user, ObjectId(loc[p].new_id)[1])
       IN  Finish(p, Ok(SerializeDoc(doc[1])))
    /\ UNCHANGED <<user, complaint, now, pushed>>

----------------------------------------------------------------------------
\* POST /api/complaints

\* The ComplaintCreate model: the declared fields with their defaults; any
\* other key of the payload is dropped.
ComplaintCreate(payload) ==
    [ user_id |-> payload.user_id,
      title |-> payload.title,
      category |-> IF "category" \in DOMAIN payload THEN payload.category ELSE "lainnya",
      description |-> payload.description,
      attachments |-> IF "attachments" \in DOMAIN payload THEN payload.attachments ELSE <<>>,
      priority |-> IF "priority" \in DOMAIN payload THEN payload.priority ELSE "sedang" ]

\* A create that files the complaint as already in progress.
ComplaintDataOpen(m) ==
    [ user_id |-> m.user_id, title |-> m.title, category |-> m.category,
      description |-> m.description, attachments |-> m.attachments,
      status |-> "diproses", assigned_to |-> None, priority |-> m.priority,
      sla_due_at |-> None, notes |-> <<>> ]

\* The record create_complaint builds.
ComplaintData(m) ==
    [ user_id |-> m.user_id, title |-> m.title, category |-> m.category,
      description |-> m.description, attachments |-> m.attachments,
      status |-> "baru", assigned_to |-> None, priority |-> m.priority,
      sla_due_at |-> None, notes |-> <<>> ]

\* uid = ObjectId(req.user_id): 400 if malformed; 404 if no such user.
CreateCheck(p, payload) ==
    /\ LET r == [op |-> "create", payload |-> payload]
           uid == ObjectId(payload.user_id)
       IN  IF uid = None
             THEN Reply(p, r, HttpError(400, "user_id tidak valid"))
             ELSE IF FindById(user, uid[1]) = None
               THEN Reply(p, r, HttpError(404, "User tidak ditemukan"))
               ELSE /\ Len(complaint) + InFlight("cre_insert") < MaxComplaints
                    /\ Begin(p, r, "cre_insert")
                    /\ UNCHANGED loc
    /\ UNCHANGED <<user, complaint, now, pushed>>

\* new_id = create_document("complaint", data)
CreateInsert(p) ==
    /\ pc[p] = "cre_insert"
    /\ complaint' = CreateDocument(complaint, ComplaintData(ComplaintCreate(req[p].payload)), NewOid)
    /\ loc' = [loc EXCEPT ![p].new_id = OidStr(NewOid)]
    /\ Continue(p, "cre_find")
    /\ Written(p, TRUE)
    /\ pushed' = Append(pushed, <<>>)
    /\ UNCHANGED <<user, now>>

\* doc = db.complaint.find_one({"_id": ObjectId(new_id)}); return serialize_doc(doc)
CreateReturn(p) ==
    /\ pc[p] = "cre_find"
    /\ LET doc == FindById(complaint, ObjectId(loc[p].new_id)[1])
       IN  Finish(p, Ok(SerializeDoc(doc[1])))
    /\ UNCHANGED <<user, complaint, now, pushed>>

----------------------------------------------------------------------------
\* PATCH /api/complaints/{complaint_id}

\* Python truthiness of an Optional[str]: None and "" are false.
Truthy(opt) == opt # None /\ opt[1] # ""

\* `if req.note is not None:`
NoteSuppliedNotNone(r) == r.note # None

\* `if req.note:`
NoteSupplied(r) == Truthy(r.note)

\* updates: the keys among status and assigned_to that are not None.
Updates(r) ==
    [k \in {f \in {"status", "assigned_to"} : r[f] # None} |->
        IF k = "status" THEN r.status[1] ELSE r.assigned_to]

\* datetime.isoformat()
IsoFormat(t) == "2024-01-01T00:00:0" \o LowerHex[t + 1]

\* The document update_one({"_id": oid}, ...) matches: its place, or 0.
Matched(coll, oid) ==
    LET hits == { i \in DOMAIN coll : coll[i]._id = oid }
    IN  IF hits = {} THEN 0 ELSE CHOOSE i \in hits : \A j \in hits : i <= j

\* $push with $position 0: the entry goes to the front.
PushNotePrepend(coll, oid, entry) ==
    [i \in DOMAIN coll |->
        IF i = Matched(coll, oid) THEN [coll[i] EXCEPT !.notes = <<entry>> \o @] ELSE coll[i]]

\* $set where $push is meant: the entry replaces the notes.
PushNoteOverwrite(coll, oid, entry) ==
    [i \in DOMAIN coll |->
        IF i = Matched(coll, oid) THEN [coll[i] EXCEPT !.notes = <<entry>>] ELSE coll[i]]

\* update_one({"_id": oid}, {"$push": {"notes": entry}})
PushNote(coll, oid, entry) ==
    [i \in DOMAIN coll |->
        IF i = Matched(coll, oid) THEN [coll[i] EXCEPT !.notes = Append(@, entry)] ELSE coll[i]]

\* update_one(..., upsert=True): a document is made when none matches.
SetFieldsUpsert(coll, oid, updates) ==
    IF Matched(coll, oid) = 0
      THEN Append(coll, updates @@ [_id |-> oid, notes |-> <<>>])
      ELSE [i \in DOMAIN coll |->
              IF i = Matched(coll, oid) THEN updates @@ coll[i] ELSE coll[i]]

\* update_many({}, ...): the filter on _id is lost.
SetFieldsEverywhere(coll, oid, updates) ==
    [i \in DOMAIN coll |-> updates @@ coll[i]]

\* update_one({"_id": oid}, {"$set": updates})
SetFields(coll, oid, updates) ==
    [i \in DOMAIN coll |->
        IF i = Matched(coll, oid) THEN updates @@ coll[i] ELSE coll[i]]

AfterPush(r) == IF DOMAIN Updates(r) # {} THEN "upd_set" ELSE "upd_find"
AfterStart(r) == IF NoteSupplied(r) THEN "upd_push" ELSE AfterPush(r)

TotalNotes ==
    LET RECURSIVE Sum(_)
        Sum(i) == IF i = 0 THEN 0 ELSE Len(complaint[i].notes) + Sum(i - 1)
    IN  Sum(Len(complaint))

\* cid = ObjectId(complaint_id): 400 if malformed.
UpdateStart(p, r) ==
    /\ IF ObjectId(r.complaint_id) = None
         THEN Reply(p, r, HttpError(400, "ID tidak valid"))
         ELSE /\ NoteSupplied(r) => TotalNotes + InFlight("upd_push") < MaxNotes
              /\ Begin(p, r, AfterStart(r))
              /\ UNCHANGED loc
    /\ UNCHANGED <<user, complaint, now, pushed>>

\* if req.note: $push {text, at}.  The clock is read here and nowhere else:
\* t is its reading, any time from the last reading on.
UpdatePush(p) ==
    /\ pc[p] = "upd_push"
    /\ \E t \in {now, now + 1} :
         LET cid == ObjectId(req[p].complaint_id)[1]
             entry == [text |-> req[p].note[1], at |-> IsoFormat(t)]
             new == PushNote(complaint, cid, entry)
             i == Matched(complaint, cid)
         IN  /\ now' = IF i = 0 THEN now ELSE t
             /\ complaint' = new
             /\ Written(p, new # complaint)
             /\ pushed' = IF i = 0 THEN pushed
                          ELSE [pushed EXCEPT ![i] = Append(@, entry.text)]
    /\ Continue(p, AfterPush(req[p]))
    /\ UNCHANGED <<user, loc>>

\* if updates: $set updates
UpdateSet(p) ==
    /\ pc[p] = "upd_set"
    /\ LET new == SetFields(complaint, ObjectId(req[p].complaint_id)[1], Updates(req[p]))
       IN  /\ complaint' = new
           /\ Written(p, new # complaint)
    /\ Continue(p, "upd_find")
    /\ UNCHANGED <<user, now, loc, pushed>>

\* doc = db.complaint.find_one({"_id": cid}); 404 if none.
UpdateReturn(p) ==
    /\ pc[p] = "upd_find"
    /\ LET doc == FindById(complaint, ObjectId(req[p].complaint_id)[1])
       IN  IF doc = None
             THEN Finish(p, HttpError(404, "Pengaduan tidak ditemukan"))
             ELSE Finish(p, Ok(SerializeDoc(doc[1])))
    /\ UNCHANGED <<user, complaint, now, pushed>>

----------------------------------------------------------------------------
\* GET /api/complaints

DefaultLimit == 100

\* The user_id and assigned_to filters forgotten.
ListQueryStatusOnly(r) ==
    [k \in {f \in {"status"} : Truthy(r[f])} |-> r[k][1]]

\* q: one key for each of status, user_id, assigned_to that is truthy.
ListQuery(r) ==
    [k \in {f \in {"status", "user_id", "assigned_to"} : Truthy(r[f])} |->
        IF k = "assigned_to" THEN r.assigned_to ELSE r[k][1]]

\* A document matches a query when it equals it on every key of the query.
Matches(doc, q) == \A k \in DOMAIN q : doc[k] = q[k]

\* get_documents(collection, filter, limit): the first `limit` matches.
GetDocuments(coll, q, limit) ==
    LET Hit(doc) == Matches(doc, q)
        hits == SelectSeq(coll, Hit)
    IN  IF Len(hits) <= limit THEN hits ELSE SubSeq(hits, 1, limit)

\* return [serialize_doc(d) for d in docs]
ListComplaints(p, r) ==
    /\ LET docs == GetDocuments(complaint, ListQuery(r),
                                IF r.limit = None THEN DefaultLimit ELSE r.limit[1])
       IN  Reply(p, r, Ok([items |-> [i \in DOMAIN docs |-> SerializeDoc(docs[i])]]))
    /\ UNCHANGED <<user, complaint, now, pushed>>

----------------------------------------------------------------------------
\* GET /api/dashboard/summary: one count_documents after the other.

\* count_documents({"status": {"$in": statuses}})
CountStatusIn(coll, statuses) ==
    Cardinality({ i \in DOMAIN coll : coll[i].status \in statuses })

OpenStatuses == {"baru", "diproses"}

ClosedStatuses == {"selesai"}

\* bool(db) in `... if db else 0`: a pymongo Database is truthy up to
\* PyMongo 3; from PyMongo 4 on its truth test raises NotImplementedError.
DbTruth == {"true", "raises"}

\* total_users = db.user.count_documents({}) if db else 0: the count, or the
\* exception of the truth test, which the server answers with 500.
DashboardUsers(p) ==
    /\ \E b \in DbTruth :
         IF b = "raises"
           THEN Reply(p, [op |-> "dashboard"], HttpError(500, "Internal Server Error"))
           ELSE /\ Begin(p, [op |-> "dashboard"], "dash_complaints")
                /\ loc' = [loc EXCEPT ![p].counts = <<Len(user)>>]
    /\ UNCHANGED <<user, complaint, now, pushed>>

DashboardCount(p, label, next, n) ==
    /\ pc[p] = label
    /\ loc' = [loc EXCEPT ![p].counts = Append(@, n)]
    /\ Continue(p, next)
    /\ UNCHANGED <<user, complaint, now, hist, pushed>>

\* total_complaints = db.complaint.count_documents({})
DashboardComplaints(p) ==
    DashboardCount(p, "dash_complaints", "dash_open", Len(complaint))

\* open_complaints = count_documents({"status": {"$in": ["baru", "diproses"]}})
DashboardOpen(p) ==
    DashboardCount(p, "dash_open", "dash_closed", CountStatusIn(complaint, OpenStatuses))

\* closed_complaints = count_documents({"status": "selesai"}); return {...}
DashboardReturn(p) ==
    /\ pc[p] = "dash_closed"
    /\ Finish(p, Ok([ users |-> loc[p].counts[1],
                      complaints |-> loc[p].counts[2],
                      complaints_open |-> loc[p].counts[3],
                      complaints_closed |-> CountStatusIn(complaint, ClosedStatuses) ]))
    /\ UNCHANGED <<user, complaint, now, pushed>>

----------------------------------------------------------------------------
\* Requests the clients send.

\* Ids a client knows or guesses: those of the documents of coll, the id the
\* next insert will get (it names no document yet), and a malformed string.
KnownIds(coll) == { OidStr(coll[i]._id) : i \in DOMAIN coll }
NextId == OidStr(NewOid)
Malformed == "not-an-id"

Ana == [op |-> "register", name |-> "Ana", email |-> "ana@bank.id",
        password |-> "rahasia", role |-> "user"]

RegisterRequests ==
    { [op |-> "register", name |-> "N", email |-> e, password |-> "pw", role |-> ro]
        : e \in {"ana@bank.id", "budi@bank.id"}, ro \in {"user", "operator"} }

\* Category and attachments given, priority left to its default, and the
\* workflow fields smuggled in.
SmuggledPayload(u) ==
    [ user_id |-> u, title |-> "Kartu hilang", category |-> "kartu_hilang",
      description |-> "hilang di ATM", attachments |-> <<"http://x/1.jpg">>,
      status |-> "selesai", assigned_to |-> Some("op9"),
      notes |-> <<[text |-> "smuggled", at |-> IsoFormat(0)]>> ]

\* The required fields only.
MinPayload(u) == [ user_id |-> u, title |-> "Tagihan", description |-> "tagihan ganda" ]

UpdateRequests(ids, fields) ==
    { [ op |-> "update", complaint_id |-> c, status |-> f[1], assigned_to |-> f[2],
        note |-> f[3] ] : c \in ids, f \in fields }

AllThree == <<Some("selesai"), Some("op1"), Some("A")>>

\* The state between requests.
Quiet ==
    /\ now = 0
    /\ pc = [p \in Procs |-> "idle"]
    /\ req = [p \in Procs |-> NoReq]
    /\ loc = [p \in Procs |-> NoLoc]
    /\ out = NoOut
    /\ hist = [p \in Procs |-> NoHist]

Empty == user = <<>> /\ complaint = <<>> /\ pushed = <<>>

\* Ana has registered.
OneUser ==
    /\ user = CreateDocument(<<>>, UserData(Ana), 10)
    /\ complaint = <<>>
    /\ pushed = <<>>

\* Ana has registered and filed a complaint.
OneComplaint ==
    /\ user = CreateDocument(<<>>, UserData(Ana), 10)
    /\ complaint = CreateDocument(<<>>, ComplaintData(ComplaintCreate(SmuggledPayload("0a"))), 11)
    /\ pushed = << <<>> >>

----------------------------------------------------------------------------
\* SpecRegister: both workers serve registrations.

InitRegister == Empty /\ Quiet

NextRegister ==
    \/ \E p \in Procs, r \in RegisterRequests : RegisterCheck(p, r)
    \/ \E p \in Procs : RegisterInsert(p)
    \/ \E p \in Procs : RegisterReturn(p)

SpecRegister == InitRegister /\ [][NextRegister]_vars

----------------------------------------------------------------------------
\* SpecCreate: w1 serves the customers' creates while w2 serves the operators'
\* updates, on the complaints there are and on the id the next one will get.

InitCreate == OneUser /\ Quiet

CreateUserIds == KnownIds(user) \cup {NextId, Malformed}

MissingFields ==
    { AllThree, <<Some("selesai"), None, None>>, <<None, Some("op1"), None>>,
      <<None, None, Some("A")>>, <<None, None, None>> }

NextCreate ==
    \/ \E u \in CreateUserIds : CreateCheck("w1", SmuggledPayload(u))
    \/ CreateInsert("w1")
    \/ CreateReturn("w1")
    \/ \E r \in UpdateRequests(KnownIds(complaint), {AllThree}) : UpdateStart("w2", r)
    \/ \E r \in UpdateRequests({NextId}, MissingFields) : UpdateStart("w2", r)
    \/ UpdatePush("w2")
    \/ UpdateSet("w2")
    \/ UpdateReturn("w2")

SpecCreate == InitCreate /\ [][NextCreate]_vars

----------------------------------------------------------------------------
\* SpecUpdate: both workers serve updates of one complaint.

InitUpdate == OneComplaint /\ Quiet

UpdateFields ==
    { <<None, None, None>>, <<None, None, Some("")>>,
      <<None, None, Some("A")>>, <<None, None, Some("B")>>,
      <<Some("selesai"), None, None>>, <<Some("diproses"), Some("op1"), Some("A")>> }

NextUpdate ==
    \/ \E p \in Procs, r \in UpdateRequests(KnownIds(complaint) \cup {NextId}, UpdateFields) :
          UpdateStart(p, r)
    \/ \E p \in Procs, r \in UpdateRequests({Malformed}, {AllThree}) : UpdateStart(p, r)
    \/ \E p \in Procs : UpdatePush(p)
    \/ \E p \in Procs : UpdateSet(p)
    \/ \E p \in Procs : UpdateReturn(p)

SpecUpdate == InitUpdate /\ [][NextUpdate]_vars

----------------------------------------------------------------------------
\* SpecList: w1 serves creates and updates, w2 lists.

InitList == OneUser /\ Quiet

ListFields == { <<Some("selesai"), None, None>>, <<None, Some("op1"), None>> }

ListFilters ==
    { <<None, None, None, None>>,
      <<Some("baru"), None, None, None>>,
      <<None, Some("0a"), None, None>>,
      <<None, None, Some("op1"), None>>,
      <<Some("baru"), Some("0a"), Some("op1"), None>>,
      <<Some(""), None, None, None>>,
      <<None, Some(""), Some(""), None>>,
      <<None, None, None, Some(1)>>,
      <<Some("baru"), None, None, Some(1)>>,
      <<None, Some("0A"), None, Some(2)>> }

ListRequests ==
    { [ op |-> "list", status |-> f[1], user_id |-> f[2], assigned_to |-> f[3],
        limit |-> f[4] ] : f \in ListFilters }

NextList ==
    \/ CreateCheck("w1", SmuggledPayload("0a"))
    \/ CreateCheck("w1", MinPayload("0A"))
    \/ CreateInsert("w1")
    \/ CreateReturn("w1")
    \/ \E r \in UpdateRequests(KnownIds(complaint), ListFields) : UpdateStart("w1", r)
    \/ UpdateSet("w1")
    \/ UpdateReturn("w1")
    \/ \E r \in ListRequests : ListComplaints("w2", r)

SpecList == InitList /\ [][NextList]_vars

----------------------------------------------------------------------------
\* SpecDashboard: w1 serves registrations, creates and status updates, w2
\* the dashboard.

InitDashboard == Empty /\ Quiet

StatusFields ==
    { <<Some("diproses"), None, None>>, <<Some("selesai"), None, None>>,
      <<Some("ditolak"), None, None>> }

NextDashboard ==
    \/ RegisterCheck("w1", Ana)
    \/ RegisterInsert("w1")
    \/ RegisterReturn("w1")
    \/ \E u \in KnownIds(user) : CreateCheck("w1", MinPayload(u))
    \/ CreateInsert("w1")
    \/ CreateReturn("w1")
    \/ \E r \in UpdateRequests(KnownIds(complaint), StatusFields) : UpdateStart("w1", r)
    \/ UpdateSet("w1")
    \/ UpdateReturn("w1")
    \/ DashboardUsers("w2")
    \/ DashboardComplaints("w2")
    \/ DashboardOpen("w2")
    \/ DashboardReturn("w2")

SpecDashboard == InitDashboard /\ [][NextDashboard]_vars

----------------------------------------------------------------------------
\* Properties of POST /api/register (SpecRegister).

\* C9: in every reachable state, including every interleaving of concurrent
\* register calls, no two user records have the same email.
EmailUnique ==
    \A i, j \in DOMAIN user : user[i].email = user[j].email => i = j

----------------------------------------------------------------------------
\* Properties of POST /api/complaints (SpecCreate).

\* What the request says, read off the payload itself.
WellFormed(s) == s \in DOMAIN HexTable
CreateFields == {"user_id", "title", "category", "description", "attachments", "priority"}
CreateDefaults == [category |-> "lainnya", attachments |-> <<>>, priority |-> "sedang"]
Requested(payload, k) == IF k \in DOMAIN payload THEN payload[k] ELSE CreateDefaults[k]

\* C2: a create whose user_id is malformed is answered 400, one whose
\* well-formed user_id names no user is answered 404, and a create answered
\* 400 or 404 has issued no write: the complaint collection is as it was.
CreateRejectedBeforeWrite ==
    [][ out'.req.op = "create" =>
          LET u == out'.req.payload.user_id
          IN  /\ ~WellFormed(u) => out'.code = 400
              /\ (WellFormed(u) /\ HexTable[u] \notin Ids(user)) => out'.code = 404
              /\ out'.code \in {400, 404} =>
                    /\ complaint' = complaint
                    /\ out'.hist.issued = 0 ]_vars

\* A create for an unknown user has been answered 404 while complaints exist.
CreateRejectedWitness ==
    /\ out.req.op = "create"
    /\ out.code = 404
    /\ Len(complaint) >= 1

\* The record stored for payload: the workflow fields forced, the rest as
\* requested.
StoredAsRequested(doc, payload) ==
    /\ doc.status = "baru"
    /\ doc.assigned_to = None
    /\ doc.notes = <<>>
    /\ \A k \in CreateFields : doc[k] = Requested(payload, k)

\* C1 as stated: every successful create returns a complaint with status =
\* baru, assigned_to = null and notes = [], whatever the payload carries, and
\* with the other fields equal to the request's values.
CreateReturnsFresh ==
    (out.req.op = "create" /\ out.code = 200) =>
        StoredAsRequested(out.body, out.req.payload)

\* C1 as amended: the insert of a create stores a complaint with status =
\* baru, assigned_to = null and notes = [] whatever the payload carries and
\* with the other fields equal to the request's values; the create returns
\* the record of the new id as it is stored when the handler reads it back,
\* whose other fields still equal the request's values.
CreateStoresFresh ==
    [][ /\ \A p \in Procs :
              (pc[p] = "cre_insert" /\ pc'[p] = "cre_find") =>
                  /\ Len(complaint') = Len(complaint) + 1
                  /\ SubSeq(complaint', 1, Len(complaint)) = complaint
                  /\ StoredAsRequested(complaint'[Len(complaint')], req[p].payload)
                  /\ complaint'[Len(complaint')]._id \notin Ids(complaint)
        /\ (out'.req.op = "create" /\ out'.code = 200) =>
              \E i \in DOMAIN complaint' :
                  /\ out'.body.id = OidStr(complaint'[i]._id)
                  /\ \A k \in DOMAIN complaint'[i] \ {"_id"} :
                        out'.body[k] = complaint'[i][k]
                  /\ \A k \in CreateFields :
                        out'.body[k] = Requested(out'.req.payload, k) ]_vars

\* A create has returned its complaint with a note an update put on it
\* between the insert and the read.
CreateRacedWitness ==
    /\ out.req.op = "create"
    /\ out.code = 200
    /\ out.body.notes # <<>>
    /\ out.body.status = "selesai"

----------------------------------------------------------------------------
\* Properties of PATCH /api/complaints/{complaint_id} beside creates
\* (SpecCreate).

\* Worker p takes a step of an update call in progress.
UpdateStep(p) == req[p].op = "update" /\ pc'[p] # pc[p]

\* The id an update call in progress names.
Target(p) == HexTable[req[p].complaint_id]

\* C5: an update whose well-formed id matches no complaint is a no-op on the
\* store (its writes neither create nor modify a complaint) and, whatever
\* status, assigned_to and note it supplies, is answered 404.
UpdateMissingIsNoOp ==
    [][ \A p \in Procs :
          (UpdateStep(p) /\ Target(p) \notin Ids(complaint)) =>
              /\ complaint' = complaint
              /\ pc[p] = "upd_find" =>
                    /\ out'.code = 404
                    /\ out'.req = req[p]
                    /\ ~out'.hist.changed ]_vars

\* An update of a missing id has issued both its writes and got 404.
UpdateMissingWitness ==
    /\ out.req.op = "update"
    /\ out.code = 404
    /\ out.hist.issued = 2
    /\ Len(complaint) >= 1

FixedFields ==
    {"_id", "user_id", "title", "category", "description", "attachments",
     "priority", "sla_due_at"}

\* C10: a complaint keeps its id, user_id, title, category, description,
\* attachments, priority and sla_due_at (null) in every step, it gains and
\* loses no field, and a step of an update leaves every complaint but the
\* one it names unchanged.
UpdateTouchesWorkflowOnly ==
    [][ \A i \in DOMAIN complaint :
          /\ i \in DOMAIN complaint'
          /\ DOMAIN complaint'[i] = DOMAIN complaint[i]
          /\ \A k \in FixedFields : complaint'[i][k] = complaint[i][k]
          /\ complaint'[i].sla_due_at = None
          /\ \A p \in Procs :
                (UpdateStep(p) /\ Target(p) # complaint[i]._id) =>
                    complaint'[i] = complaint[i] ]_vars

\* Of two complaints the first has been closed, assigned and annotated and
\* the second is as created.
UpdateTouchesWitness ==
    /\ Len(complaint) = 2
    /\ complaint[1].status = "selesai"
    /\ complaint[1].assigned_to = Some("op1")
    /\ Len(complaint[1].notes) = 1
    /\ complaint[2].status = "baru"
    /\ complaint[2].notes = <<>>

----------------------------------------------------------------------------
\* Properties of PATCH /api/complaints/{complaint_id} (SpecUpdate).

\* Worker p completes the $push of its call on complaint i.
Pushes(p, i) ==
    /\ pc[p] = "upd_push"
    /\ pc'[p] # "upd_push"
    /\ Target(p) = complaint[i]._id

\* C3: in every step the notes of a complaint before the step are a prefix
\* of its notes after it; the $push of an update with a non-empty note adds
\* exactly one entry, with the note's text, at the end (so A and then B
\* leave notes ending in A, B), and no other step changes the notes.
NotesAppendOnly ==
    [][ \A i \in DOMAIN complaint :
          LET old == complaint[i].notes
              new == complaint'[i].notes
          IN  /\ Len(old) <= Len(new)
              /\ SubSeq(new, 1, Len(old)) = old
              /\ \A p \in Procs :
                    Pushes(p, i) =>
                        /\ req[p].note \notin {None, Some("")}
                        /\ Len(new) = Len(old) + 1
                        /\ new[Len(new)].text = req[p].note[1]
                        /\ DOMAIN new[Len(new)] = {"text", "at"}
              /\ (\A p \in Procs : ~Pushes(p, i)) => new = old ]_vars

\* The complaint carries the notes A and B in the order they were appended.
NotesAppendOnlyWitness ==
    /\ Len(complaint[1].notes) = 2
    /\ complaint[1].notes[1].text = "A"
    /\ complaint[1].notes[2].text = "B"
    /\ pushed[1] = <<"A", "B">>

Texts(notes) == [j \in DOMAIN notes |-> notes[j].text]

\* C4: the notes of a complaint are, in every interleaving of the calls'
\* store operations, exactly the notes the calls have appended to it: none
\* is lost or overwritten by another appender or by a status or assignment
\* update.
NoNoteLost ==
    \A i \in DOMAIN complaint : Texts(complaint[i].notes) = pushed[i]

\* Two calls have appended to the same complaint while both were in
\* progress, and one has gone on to set status and assignment.
NoNoteLostWitness ==
    /\ pc["w1"] = "upd_find"
    /\ pc["w2"] = "upd_set"
    /\ hist["w1"].issued = 2
    /\ hist["w2"].issued = 1
    /\ req["w1"].complaint_id = req["w2"].complaint_id
    /\ Len(complaint[1].notes) = 2

\* C6: an update on an existing complaint that supplies no status, no
\* assigned_to and no note (a null or empty note is none) has issued no write
\* and is answered with the complaint's record as it is stored.
EmptyUpdateReadsOnly ==
    ( /\ out.req.op = "update"
      /\ out.req.status = None
      /\ out.req.assigned_to = None
      /\ out.req.note \in {None, Some("")}
      /\ WellFormed(out.req.complaint_id) ) =>
        \A i \in DOMAIN complaint :
            complaint[i]._id = HexTable[out.req.complaint_id] =>
                /\ out.code = 200
                /\ out.hist.issued = 0
                /\ out.body.id = OidStr(complaint[i]._id)
                /\ \A k \in DOMAIN complaint[i] \ {"_id"} : out.body[k] = complaint[i][k]

\* An update with an empty note has returned the record, which carries the
\* status and a note other calls gave it.
EmptyUpdateWitness ==
    /\ out.req.op = "update"
    /\ out.req.status = None
    /\ out.req.assigned_to = None
    /\ out.req.note = Some("")
    /\ out.code = 200
    /\ out.body.status = "selesai"
    /\ Len(out.body.notes) = 1

----------------------------------------------------------------------------
\* Properties of GET /api/complaints (SpecList).

FilterKeys == {"status", "user_id", "assigned_to"}

\* Complaint doc has the value v under filter key k.
HasValue(doc, k, v) == IF k = "assigned_to" THEN doc[k] = Some(v) ELSE doc[k] = v

\* What a list call with the filter keys `keys` of request r is to return of
\* the complaints: all that match on every key if they are at most limit,
\* only such and at most limit otherwise, each as it is stored.
ListAnswers(r, keys, items) ==
    LET Wanted(doc) == \A k \in keys : HasValue(doc, k, r[k][1])
        wanted == { i \in DOMAIN complaint : Wanted(complaint[i]) }
        limit == IF r.limit = None THEN 100 ELSE r.limit[1]
    IN  /\ Len(items) <= limit
        /\ \A j \in DOMAIN items :
              \E i \in wanted :
                  /\ items[j].id = OidStr(complaint[i]._id)
                  /\ \A k \in DOMAIN complaint[i] \ {"_id"} : items[j][k] = complaint[i][k]
        /\ \A j, l \in DOMAIN items : items[j].id = items[l].id => j = l
        /\ Cardinality(wanted) <= limit => Len(items) = Cardinality(wanted)

\* C7 as stated: list returns only complaints that match every supplied
\* filter key among status, user_id and assigned_to by exact equality, all
\* of them when they are at most limit, and never more than limit (100 by
\* default).
ListMatchesSupplied ==
    out.req.op = "list" =>
        ListAnswers(out.req, { k \in FilterKeys : out.req[k] # None }, out.body.items)

\* C7 as amended: the same for every filter key supplied with a non-empty
\* value; a key supplied as the empty string imposes no constraint.
ListMatchesNonEmpty ==
    out.req.op = "list" =>
        ListAnswers(out.req, { k \in FilterKeys : out.req[k] \notin {None, Some("")} },
                    out.body.items)

\* A list by status, user and operator has returned one of two complaints.
ListMatchesWitness ==
    /\ out.req.op = "list"
    /\ out.req.status = Some("baru")
    /\ out.req.user_id = Some("0a")
    /\ out.req.assigned_to = Some("op1")
    /\ Len(complaint) = 2
    /\ Len(out.body.items) = 1

----------------------------------------------------------------------------
\* Properties of GET /api/dashboard/summary (SpecDashboard).

CountStatus(statuses) ==
    Cardinality({ i \in DOMAIN complaint : complaint[i].status \in statuses })

\* The counts of a dashboard response are those of the store.
DashboardCountsRight ==
    /\ out.body.users = Len(user)
    /\ out.body.complaints = Len(complaint)
    /\ out.body.complaints_open = CountStatus({"baru", "diproses"})
    /\ out.body.complaints_closed = CountStatus({"selesai"})

\* C8: a dashboard call during which no write changed the store reports
\* users = number of users, complaints = number of complaints,
\* complaints_open = number with status baru or diproses, complaints_closed =
\* number with status selesai (a complaint with status ditolak counts in
\* complaints only).
DashboardCounts ==
    (out.req.op = "dashboard" /\ ~out.hist.disturbed) =>
        /\ out.code = 200
        /\ DashboardCountsRight

====
